---- MODULE Spec2Model ----
(***************************************************************************)
(* The eccfs snapshotter of image-rs (src/image-rs/src/snapshots/eccfs.rs): *)
(* EccOvlFs::mount builds one writable and N+1 read-only layer images       *)
(* through a hostfs mount at mount_path, then publishes the layers' keys in *)
(* key.txt through a sefs mount at /keys; EccOvlFs::unmount releases the    *)
(* mount at a handle's mount_path.                                         *)
(*                                                                         *)
(* Text (file names, key.txt) is a sequence of one-character strings.      *)
(* Paths are records [abs, comps].  Every system call of mount is one step *)
(* of the calling context, so that calls of several contexts interleave.   *)
(***************************************************************************)
EXTENDS Integers, Sequences, FiniteSets, TLC

VARIABLES
    cfg,        \* the scenario: which contexts call, with which inputs and test doubles
    pc,         \* pc[c]: the statement of mount context c is at ("idle" between calls)
    loc,        \* loc[c]: the locals of c's call of mount, and what the call did so far
    ret,        \* ret[c]: what c's last finished call returned
    under,      \* under[p]: the directory at path p itself, below anything mounted on it
    store,      \* store[d]: the files of /images/<d>/eccfs
    keystore,   \* keystore[d]: key.txt of /images/<d>/keys/sefs/lower
    plainKeys,  \* key.txt of the directory /keys itself, below the sefs mount
    mtab,       \* mtab[p]: the mounts stacked on path p, the last one on top
    scratch,    \* the entries of /eccfs_tmp
    scratchExists, \* whether /eccfs_tmp exists
    calls       \* mount calls started so far

vars == <<cfg, pc, loc, ret, under, store, keystore, plainKeys, mtab, scratch,
          scratchExists, calls>>

----------------------------------------------------------------------------
(* Bounds of the model.                                                    *)

MaxLayers == 2
MaxCalls == 1

----------------------------------------------------------------------------
(* Text.                                                                   *)

RECURSIVE Join(_, _)
\* [String]::join(sep) (line 226).
Join(parts, sep) ==
    IF Len(parts) = 0 THEN <<>>
    ELSE IF Len(parts) = 1 THEN parts[1]
    ELSE parts[1] \o sep \o Join(Tail(parts), sep)

HexDigits == <<"0", "1", "2", "3", "4", "5", "6", "7",
               "8", "9", "A", "B", "C", "D", "E", "F">>

HexByteLower(b) ==
    LET lower == <<"0", "1", "2", "3", "4", "5", "6", "7",
                   "8", "9", "a", "b", "c", "d", "e", "f">>
    IN  <<lower[(b \div 16) + 1], lower[(b % 16) + 1]>>

\* hex::encode_upper of one byte: high nibble first (line 224).
HexByte(b) == <<HexDigits[(b \div 16) + 1], HexDigits[(b % 16) + 1]>>

RECURSIVE hex_encode_upper(_)
\* hex::encode_upper (line 224).
hex_encode_upper(bytes) ==
    IF Len(bytes) = 0 THEN <<>>
    ELSE HexByte(Head(bytes)) \o hex_encode_upper(Tail(bytes))

DecDigits == <<"0", "1", "2", "3", "4", "5", "6", "7", "8", "9">>

RECURSIVE DecText(_)
\* An integer in decimal, without padding.
DecText(n) ==
    IF n < 10 THEN <<DecDigits[n + 1]>>
    ELSE DecText(n \div 10) \o <<DecDigits[(n % 10) + 1]>>

RECURSIVE PadZero(_, _)
PadZero(t, width) == IF Len(t) >= width THEN t ELSE PadZero(<<"0">> \o t, width)

RoExt == <<".", "r", "o", "i", "m", "a", "g", "e">>

\* format!("{:04}.roimage", i) (lines 171, 183).
RoImageName(i) == PadZero(DecText(i), 4) \o RoExt

\* ECCFS_RW_IMAGE_NAME (line 112).
ECCFS_RW_IMAGE_NAME == <<"r", "u", "n", ".", "r", "w", "i", "m", "a", "g", "e">>

----------------------------------------------------------------------------
(* Paths (std::path::Path).                                                *)

AbsPath(comps) == [abs |-> TRUE, comps |-> comps]

NoPath == [some |-> FALSE, path |-> AbsPath(<<>>)]
NoName == [some |-> FALSE, name |-> ""]

Front(s) == SubSeq(s, 1, Len(s) - 1)
Last(s) == s[Len(s)]

\* Path::parent (line 124): None for a root or an empty path.
parent(p) ==
    IF p.comps = <<>> THEN NoPath
    ELSE [some |-> TRUE, path |-> [abs |-> p.abs, comps |-> Front(p.comps)]]

\* Path::file_name (line 126): None for a root, an empty path or a path ending in "..".
file_name(p) ==
    IF p.comps = <<>> \/ Last(p.comps) = ".." THEN NoName
    ELSE [some |-> TRUE, name |-> Last(p.comps)]

RootPath == AbsPath(<<>>)                       \* "/"
TopLevelPath == AbsPath(<<"rootfs">>)           \* "/rootfs"
ContainerPath(d) == AbsPath(<<d, "rootfs">>)    \* "/<d>/rootfs"

Cids == {"c1", "c2"}

MountPaths == {RootPath, TopLevelPath} \cup {ContainerPath(d) : d \in Cids}

\* keys_mount_path (line 201).
KeysPath == AbsPath(<<"keys">>)

MountTargets == MountPaths \cup {KeysPath}

\* eccfs_dir_host (line 129).
EccfsDirHost(cid) == <<"images", cid, "eccfs">>

KeysDirShared(cid) == <<"images", "c1", "keys", "sefs", "lower">>

\* The dir= option of the sefs mount (lines 193-199).
KeysDirHost(cid) == <<"images", cid, "keys", "sefs", "lower">>

LayerDirs == {"layer_a", "layer_b"}

NoRepeat(s) == \A k \in 1..(Len(s) - 1) : s[k] # s[k + 1]

\* The layer lists mount is called with: up to n directories, no directory
\* twice in a row.
RECURSIVE LayerLists(_)
LayerLists(n) ==
    IF n = 0 THEN {<<>>}
    ELSE LET shorter == LayerLists(n - 1)
         IN  shorter \cup
             {t \in {Append(s, x) : s \in {t \in shorter : Len(t) = n - 1}, x \in LayerDirs} :
                NoRepeat(t)}

----------------------------------------------------------------------------
(* Keys (generate_random_key, lines 44-50).                                *)

KEY_LEN == 16

KeySeeds == <<0, 1, 17, 255>>

KeyOf(seed) == [i \in 1..KEY_LEN |-> (seed * i) % 256]

Keys == {KeyOf(KeySeeds[n]) : n \in 1..Len(KeySeeds)}

\* What the random source may return on its (n+1)-th call of one mount:
\* anything, or, for the test double, the next of a list of distinct values
\* (a later call of mount begins one place further on in the list).
RandChoices(kind, n) ==
    IF kind = "any" THEN Keys ELSE {KeyOf(KeySeeds[(n % Len(KeySeeds)) + 1])}

----------------------------------------------------------------------------
(* The file systems and the mount table.                                   *)

\* A file: its name, the key-mode descriptor of the build that wrote it
\* (enc, key) and the mount call that wrote it (0: it was there at the start).
File(name, enc, key, call) == [name |-> name, enc |-> enc, key |-> key, call |-> call]

OldFileName == <<"o", "l", "d", ".", "t", "x", "t">>

\* What an earlier run may have left in a storage root.
LeftoverImages ==
    {File(ECCFS_RW_IMAGE_NAME, TRUE, KeyOf(0), 0),
     File(RoImageName(0), TRUE, KeyOf(0), 0),
     File(RoImageName(3), FALSE, KeyOf(255), 0)}

NoKeyFile == [exists |-> FALSE, text |-> <<>>]
KeyFile(text) == [exists |-> TRUE, text |-> text]

\* The key.txt an earlier run may have left.
LeftoverKeyFile == KeyFile(<<"i", "n", "t", "-", "0", "0">>)

\* The mounts earlier failed calls may have left: hostfs at c1's mount path
\* (a failed build) and sefs at /keys (c2's failed key write).
LeftoverMounts(p) ==
    IF p = [abs |-> TRUE, comps |-> <<"c1", "rootfs">>]
    THEN <<[fs |-> "hostfs", dir |-> EccfsDirHost("c1")]>>
    ELSE IF p = KeysPath THEN <<[fs |-> "sefs", dir |-> KeysDirHost("c2")]>>
    ELSE <<>>

Mounted(mt, p) == Len(mt[p]) > 0
Top(mt, p) == mt[p][Len(mt[p])]

\* The storage root a mounted path shows: /images/<cid>/... names <cid> second.
DirCid(m) == m.dir[2]

\* fs::read_dir(p): through the top mount when there is one.
ViewFiles(p) == IF Mounted(mtab, p) THEN store[DirCid(Top(mtab, p))] ELSE under[p].files

\* The stores after the directory seen at p is given the files fs.
StoreAfter(p, fs) ==
    IF Mounted(mtab, p) THEN [store EXCEPT ![DirCid(Top(mtab, p))] = fs] ELSE store

UnderAfter(p, fs) ==
    IF Mounted(mtab, p) THEN under ELSE [under EXCEPT ![p].files = fs]

\* A file written into a directory replaces the one of its name.
WithFile(fs, f) == {g \in fs : g.name # f.name} \cup {f}

nix_mount_undone(mt, p, m) == mt

\* nix::mount::mount (lines 137, 202): the new mount covers the path.
nix_mount(mt, p, m) == [mt EXCEPT ![p] = Append(@, m)]

umount_all(mt, p) == [q \in DOMAIN mt |-> <<>>]

umount_kept(mt, p) == mt

\* nix::mount::umount (lines 191, 229, 239): releases the top mount of the path.
nix_umount(mt, p) == [mt EXCEPT ![p] = Front(@)]

clear_path_keeps(S) == {[ok |-> TRUE, left |-> S]}

\* clear_path (lines 20-33): every entry removed; or read_dir fails and nothing
\* is; or remove_items fails after the first entry.
clear_path(S) ==
    {[ok |-> TRUE, left |-> {}], [ok |-> FALSE, left |-> S]}
        \cup {[ok |-> FALSE, left |-> S \ {x}] : x \in {y \in S : Cardinality(S) > 1}}

----------------------------------------------------------------------------
(* Calls.                                                                  *)

Ctxs == {1, 2}

Inputs(layerSeqs, paths) == {[layer_path |-> l, mount_path |-> p] : l \in layerSeqs, p \in paths}

\* MountPoint (lines 231-235); data_dir is the snapshotter's own directory.
MountPoint(p) == [type |-> "eccfs", mount_path |-> p, work_dir |-> "data_dir"]

NoRet == [op |-> "none", ok |-> TRUE, err |-> "", handle |-> FALSE, mount_point |-> MountPoint(RootPath)]
Ok(op) == [op |-> op, ok |-> TRUE, err |-> "", handle |-> FALSE, mount_point |-> MountPoint(RootPath)]
OkHandle(op, p) == [op |-> op, ok |-> TRUE, err |-> "", handle |-> TRUE, mount_point |-> MountPoint(p)]
Err(op, e) == [op |-> op, ok |-> FALSE, err |-> e, handle |-> FALSE, mount_point |-> MountPoint(RootPath)]

\* The locals of one call of mount, and the record of what it did:
\* rand, the values generate_random_key returned; builds, the builder calls
\* made; cleared, the files line 153 removed; trace, the steps that took
\* effect; entry and entryKeys, the mount table and the key.txt files the
\* call found; clean, whether every earlier call of the caller succeeded.
NewCall(id, in) ==
    [id |-> id, layer_path |-> in.layer_path, mount_path |-> in.mount_path,
     cid |-> "", fsmodes |-> <<>>, i |-> 0, rand |-> <<>>, builds |-> <<>>,
     cleared |-> {}, trace |-> <<>>, entry |-> [p \in MountTargets |-> <<>>],
     entryKeys |-> [d \in Cids |-> NoKeyFile], clean |-> TRUE]

NoCall == NewCall(0, [layer_path |-> <<>>, mount_path |-> RootPath])

\* eccfs_work_dir.join("occlum_env") (line 165) and what a builder leaves behind.
OcclumEnv(c) == [name |-> "occlum_env", owner |-> c]
BuilderTmp(c) == [name |-> "builder_tmp", owner |-> c]

InitWith(scenario) ==
    /\ cfg = scenario
    /\ pc = [c \in Ctxs |-> IF c \in scenario.ctxs THEN "idle" ELSE "off"]
    /\ loc = [c \in Ctxs |-> NoCall]
    /\ ret = [c \in Ctxs |-> NoRet]
    /\ \E r \in scenario.residue :
         /\ under = [p \in MountPaths |->
                       IF p = RootPath THEN [exists |-> TRUE, files |-> {}]
                       ELSE [exists |-> r.dirs,
                             files |-> IF r.dirs
                                       THEN {File(OldFileName, FALSE, <<>>, 0)} ELSE {}]]
         /\ store = [d \in Cids |-> IF r.images THEN LeftoverImages ELSE {}]
         /\ keystore = [d \in Cids |-> IF r.images THEN LeftoverKeyFile ELSE NoKeyFile]
         /\ mtab = [p \in MountTargets |-> IF r.mounted THEN LeftoverMounts(p) ELSE <<>>]
         /\ scratch = IF r.mounted THEN {OcclumEnv(0)} ELSE {}
         /\ scratchExists = r.images
    /\ plainKeys = NoKeyFile
    /\ calls = 0

\* What earlier runs left: the directories of the mount paths (each with a
\* file), built images and a key.txt, and the mounts of calls that failed.
Residue(dirs, images, mounted) == [dirs |-> dirs, images |-> images, mounted |-> mounted]

Residues ==
    {Residue(FALSE, FALSE, FALSE), Residue(TRUE, FALSE, FALSE), Residue(FALSE, TRUE, FALSE),
     Residue(TRUE, TRUE, FALSE), Residue(TRUE, TRUE, TRUE)}

\* One caller, calls one after the other, the random source a test double.
Sequential ==
    [ctxs |-> {1},
     inputs |-> [c \in Ctxs |-> Inputs(LayerLists(MaxLayers), MountPaths)],
     rand |-> "distinct", enc |-> {TRUE}, residue |-> Residues, maxCalls |-> MaxCalls,
     once |-> FALSE]

\* One call of one caller, the random source and the builder's choice of
\* mode unconstrained.
AnyKeys ==
    [ctxs |-> {1},
     inputs |-> [c \in Ctxs |-> Inputs({l \in LayerLists(MaxLayers) : NoRepeat(<<"layer_b">> \o l)},
                                       {ContainerPath("c1")})],
     rand |-> "any", enc |-> {TRUE, FALSE}, residue |-> {Residue(TRUE, TRUE, FALSE)},
     maxCalls |-> MaxCalls, once |-> TRUE]

\* Two callers, one call each, for different container identities.
Concurrent ==
    [ctxs |-> {1, 2},
     inputs |-> [c \in Ctxs |-> IF c = 1
                                THEN Inputs({<<"layer_a">>}, {ContainerPath("c1")})
                                ELSE Inputs({<<>>}, {ContainerPath("c2")})],
     rand |-> "distinct", enc |-> {TRUE}, residue |-> {Residue(TRUE, FALSE, FALSE)},
     maxCalls |-> Cardinality(Ctxs) * MaxCalls, once |-> TRUE]

\* One caller that calls again and again, for the same container or for
\* another, whatever became of the call before.
Repeated ==
    [ctxs |-> {1},
     inputs |-> [c \in Ctxs |-> Inputs({l \in LayerLists(MaxLayers) : NoRepeat(<<"layer_b">> \o l)},
                                       {ContainerPath(d) : d \in Cids})],
     rand |-> "distinct", enc |-> {TRUE}, residue |-> {Residue(TRUE, FALSE, FALSE)},
     maxCalls |-> MaxCalls + 1, once |-> FALSE]

Init == InitWith(Sequential)

InitAgain == InitWith(Repeated)

InitKeys == InitWith(AnyKeys)

InitConc == InitWith(Concurrent)

----------------------------------------------------------------------------
(* Steps of mount.                                                         *)

\* The outcomes of a fallible operation: it fails when it cannot succeed, and
\* may fail for a reason of the operating system's or the builder's.
Outcomes(possible) == IF possible THEN {TRUE, FALSE} ELSE {FALSE}

Did(l, ok, ev) == IF ok THEN [l EXCEPT !.trace = Append(@, ev)] ELSE l

TryPastBuilder(c, ok, e, next) ==
    IF ok \/ e = "builder"
    THEN pc' = [pc EXCEPT ![c] = next] /\ ret' = ret
    ELSE pc' = [pc EXCEPT ![c] = "idle"] /\ ret' = [ret EXCEPT ![c] = Err("mount", e)]

\* The ? after a fallible call: go on, or return the error at once.
Try(c, ok, e, next) ==
    IF ok
    THEN /\ pc' = [pc EXCEPT ![c] = next]
         /\ ret' = ret
    ELSE /\ pc' = [pc EXCEPT ![c] = "idle"]
         /\ ret' = [ret EXCEPT ![c] = Err("mount", e)]

\* Whether the call of the record l, if there was one, went through to its
\* last step, the release of /keys (line 229).
Completed(l) == l.id = 0 \/ (l.trace # <<>> /\ l.trace[Len(l.trace)] = "umount_keys")

\* mount is entered (line 115).
MountCall(c) ==
    /\ pc[c] = "idle"
    /\ calls < cfg.maxCalls
    /\ cfg.once => loc[c].id = 0
    /\ \E in \in cfg.inputs[c] :
         loc' = [loc EXCEPT ![c] = [NewCall(calls + 1, in) EXCEPT
                                     !.entry = mtab,
                                     !.entryKeys = keystore,
                                     !.clean = loc[c].clean /\ Completed(loc[c])]]
    /\ calls' = calls + 1
    /\ pc' = [pc EXCEPT ![c] = "create_mount_path"]
    /\ ret' = [ret EXCEPT ![c] = NoRet]
    /\ UNCHANGED <<cfg, under, store, keystore, plainKeys, mtab, scratch, scratchExists>>

\* Lines 118-120: mount_path is created when it does not exist.
CreateMountPath(c) ==
    LET l == loc[c]
        missing == ~under[l.mount_path].exists
    IN  /\ pc[c] = "create_mount_path"
        /\ \E ok \in (IF missing THEN Outcomes(TRUE) ELSE {TRUE}) :
             /\ under' = IF missing /\ ok
                         THEN [under EXCEPT ![l.mount_path] = [exists |-> TRUE, files |-> {}]]
                         ELSE under
             /\ loc' = [loc EXCEPT ![c] = Did(l, missing /\ ok, "create_mount_path")]
             /\ Try(c, ok, "create_dir_all", "resolve_cid")
        /\ UNCHANGED <<cfg, store, keystore, plainKeys, mtab, scratch, scratchExists, calls>>

\* Lines 123-127: the container identity is the name of mount_path's parent.
ResolveCid(c) ==
    LET l == loc[c]
        par == parent(l.mount_path)
        name == file_name(par.path)
    IN  /\ pc[c] = "resolve_cid"
        /\ loc' = [loc EXCEPT ![c].cid = IF par.some /\ name.some THEN name.name ELSE @]
        /\ IF ~par.some THEN Try(c, FALSE, "parent do not exist", "prepare_work_dir")
           ELSE IF ~name.some
                THEN Try(c, FALSE, "Unknown error: file name parse fail", "prepare_work_dir")
                ELSE Try(c, TRUE, "", "prepare_work_dir")
        /\ UNCHANGED <<cfg, under, store, keystore, plainKeys, mtab, scratch, scratchExists,
                       calls>>

\* Lines 130-135: /eccfs_tmp is created, or cleared when it exists.
PrepareWorkDir(c) ==
    LET l == loc[c]
    IN  /\ pc[c] = "prepare_work_dir"
        /\ \E o \in (IF scratchExists THEN clear_path(scratch)
                      ELSE {[ok |-> b, left |-> scratch] : b \in Outcomes(TRUE)}) :
             /\ scratch' = o.left
             /\ scratchExists' = (scratchExists \/ o.ok)
             /\ loc' = [loc EXCEPT ![c] = Did(l, o.ok, "prepare_work_dir")]
             /\ Try(c, o.ok, "eccfs_work_dir", "mount_hostfs")
        /\ UNCHANGED <<cfg, under, store, keystore, plainKeys, mtab, calls>>

\* Lines 137-150: hostfs, backed by /images/<cid>/eccfs, is mounted at mount_path.
MountHostfs(c) ==
    LET l == loc[c]
        p == l.mount_path
    IN  /\ pc[c] = "mount_hostfs"
        /\ \E ok \in Outcomes(TRUE) :
             /\ mtab' = IF ok
                        THEN nix_mount(mtab, p, [fs |-> "hostfs", dir |-> EccfsDirHost(l.cid)])
                        ELSE mtab
             /\ loc' = [loc EXCEPT ![c] = Did(l, ok, "mount_hostfs")]
             /\ Try(c, ok, "failed to mount hostfs", "clear_mount_path")
        /\ UNCHANGED <<cfg, under, store, keystore, plainKeys, scratch, scratchExists, calls>>

\* Line 153: what is seen at mount_path is cleared.
ClearMountPath(c) ==
    LET l == loc[c]
        p == l.mount_path
    IN  /\ pc[c] = "clear_mount_path"
        /\ \E o \in clear_path(ViewFiles(p)) :
             /\ store' = StoreAfter(p, o.left)
             /\ under' = UnderAfter(p, o.left)
             /\ loc' = [loc EXCEPT ![c] = Did([l EXCEPT !.cleared = ViewFiles(p) \ o.left],
                                              o.ok, "clear_mount_path")]
             /\ Try(c, o.ok, "clear_path", "build_rw")
        /\ UNCHANGED <<cfg, keystore, plainKeys, mtab, scratch, scratchExists, calls>>

----------------------------------------------------------------------------
(* The layer builds.                                                       *)

FirstKey(rand) == rand[1]

\* Some(generate_random_key()) (lines 160, 173, 185): the key handed to a
\* build is the value the random source has just returned.
KeyArg(rand) == rand[Len(rand)]

\* The key-mode descriptor a build returns: whether the image is encrypted,
\* and its key material, the key the build was given.
BuilderMode(enc, key) == [enc |-> enc, key |-> key]

DropMode(fsmodes, m) == IF Len(fsmodes) = 0 THEN <<m>> ELSE fsmodes

\* fsmodes.push (lines 162, 175, 187).
PushMode(fsmodes, m) == Append(fsmodes, m)

LayerIndexZeroBased(i) == i

\* The image index of caller layer i (line 183).
LayerIndex(i) == i + 1

LayerAtReversed(layers, i) == layers[Len(layers) - i]

\* layer_path.iter().enumerate() (line 179): layer i of the input, 0-based.
LayerAt(layers, i) == layers[i + 1]

AfterLayerLeavesLoop(l, i) == "umount_hostfs"

AfterLayerKeepsHostfs(l, i) == IF i < Len(l.layer_path) THEN "build_layer" ELSE "mount_keys"

\* After a layer's scratch is cleared (lines 176, 188-189): the next caller
\* layer, or the end of the loop.
AfterLayer(l, i) == IF i < Len(l.layer_path) THEN "build_layer" ELSE "umount_hostfs"

\* One build: a key is drawn, the builder writes the image <name> at
\* mount_path and returns its descriptor, which is pushed to fsmodes.
Build(c, kind, src, name, possible, next) ==
    LET l == loc[c]
        p == l.mount_path
    IN  \E k \in RandChoices(cfg.rand, Len(l.rand) + l.id - 1), enc \in cfg.enc,
           ok \in Outcomes(possible) :
          LET rand2 == Append(l.rand, k)
              key == KeyArg(rand2)
              called == [l EXCEPT !.rand = rand2,
                                  !.builds = Append(@, [kind |-> kind, src |-> src,
                                                        name |-> name, key |-> key,
                                                        mode |-> BuilderMode(enc, key)])]
              built == [called EXCEPT !.fsmodes = PushMode(@, BuilderMode(enc, key))]
              files == WithFile(ViewFiles(p), File(name, enc, key, l.id))
          IN  /\ store' = IF ok THEN StoreAfter(p, files) ELSE store
              /\ under' = IF ok THEN UnderAfter(p, files) ELSE under
              /\ scratch' = IF ok /\ kind = "ro" THEN scratch \cup {BuilderTmp(c)} ELSE scratch
              /\ loc' = [loc EXCEPT ![c] = IF ok THEN Did(built, TRUE, "build") ELSE called]
              /\ Try(c, ok, "builder", next)

\* Lines 157-162: the empty writable image.
BuildRw(c) ==
    /\ pc[c] = "build_rw"
    /\ Build(c, "rw", "", ECCFS_RW_IMAGE_NAME, TRUE, "create_environment")
    /\ UNCHANGED <<cfg, keystore, plainKeys, mtab, scratchExists, calls>>

\* Lines 165-167: the occlum environment is staged in /eccfs_tmp/occlum_env.
CreateEnvironment(c) ==
    LET l == loc[c]
    IN  /\ pc[c] = "create_environment"
        /\ \E ok \in Outcomes(TRUE) :
             /\ loc' = [loc EXCEPT ![c] = Did(l, ok, "create_environment")]
             /\ Try(c, ok, "create_environment", "build_env")
        /\ scratch' = scratch \cup {OcclumEnv(c)}
        /\ scratchExists' = TRUE
        /\ UNCHANGED <<cfg, under, store, keystore, plainKeys, mtab, calls>>

\* Lines 168-175: the staged environment is built as 0000.roimage.
BuildEnv(c) ==
    /\ pc[c] = "build_env"
    /\ Build(c, "ro", "occlum_env", RoImageName(0),
             \E e \in scratch : e.name = "occlum_env", "clear_after_env")
    /\ UNCHANGED <<cfg, keystore, plainKeys, mtab, scratchExists, calls>>

\* clear_path(eccfs_work_dir) after a read-only build (lines 176, 188).
ClearWorkDir(c, i) ==
    LET l == loc[c]
    IN  \E o \in {x \in clear_path(scratch) : scratchExists \/ ~x.ok} :
          /\ scratch' = o.left
          /\ loc' = [loc EXCEPT ![c] = Did([l EXCEPT !.i = i], o.ok, "clear_work_dir")]
          /\ Try(c, o.ok, "clear_path", AfterLayer(l, i))

\* Line 176.
ClearAfterEnv(c) ==
    /\ pc[c] = "clear_after_env"
    /\ ClearWorkDir(c, 0)
    /\ UNCHANGED <<cfg, under, store, keystore, plainKeys, mtab, scratchExists, calls>>

\* Lines 179-187: caller layer i is built as <i+1>.roimage.
BuildLayer(c) ==
    LET l == loc[c]
    IN  /\ pc[c] = "build_layer"
        /\ Build(c, "ro", LayerAt(l.layer_path, l.i), RoImageName(LayerIndex(l.i)),
                 TRUE, "clear_after_layer")
        /\ UNCHANGED <<cfg, keystore, plainKeys, mtab, scratchExists, calls>>

\* Line 188, and the loop's next round.
ClearAfterLayer(c) ==
    /\ pc[c] = "clear_after_layer"
    /\ ClearWorkDir(c, loc[c].i + 1)
    /\ UNCHANGED <<cfg, under, store, keystore, plainKeys, mtab, scratchExists, calls>>

----------------------------------------------------------------------------
(* The key record.                                                         *)

\* Lines 218-224: "enc" or "int", a dash, the key in upper-case hexadecimal.
ModeStr(m) ==
    (IF m.enc THEN <<"e", "n", "c">> ELSE <<"i", "n", "t">>)
        \o <<"-">> \o hex_encode_upper(m.key)

KeyLineReversed(fsmodes) ==
    Join([n \in 1..Len(fsmodes) |-> ModeStr(fsmodes[Len(fsmodes) + 1 - n])], <<":">>)

\* Lines 217-226: the records in the order of fsmodes, joined with ":".
KeyLine(fsmodes) == Join([n \in 1..Len(fsmodes) |-> ModeStr(fsmodes[n])], <<":">>)

fs_write_appends(old, text) ==
    {[ok |-> TRUE, file |-> KeyFile(old.text \o text)], [ok |-> FALSE, file |-> old]}

\* std::fs::write (line 228): the file holds the text; or the write fails,
\* before the file is opened or after it is truncated.
fs_write(old, text) ==
    {[ok |-> TRUE, file |-> KeyFile(text)], [ok |-> FALSE, file |-> old],
     [ok |-> FALSE, file |-> KeyFile(<<>>)]}

\* Line 191: the hostfs mount at mount_path is released.
UmountHostfs(c) ==
    LET l == loc[c]
        p == l.mount_path
    IN  /\ pc[c] = "umount_hostfs"
        /\ \E ok \in Outcomes(Mounted(mtab, p)) :
             /\ mtab' = IF ok THEN nix_umount(mtab, p) ELSE mtab
             /\ loc' = [loc EXCEPT ![c] = Did(l, ok, "umount_hostfs")]
             /\ Try(c, ok, "umount", "mount_keys")
        /\ UNCHANGED <<cfg, under, store, keystore, plainKeys, scratch, scratchExists, calls>>

\* Lines 193-215: sefs, backed by /images/<cid>/keys/sefs/lower, is mounted at /keys.
MountKeys(c) ==
    LET l == loc[c]
    IN  /\ pc[c] = "mount_keys"
        /\ \E ok \in Outcomes(TRUE) :
             /\ mtab' = IF ok
                        THEN nix_mount(mtab, KeysPath, [fs |-> "sefs", dir |-> KeysDirHost(l.cid)])
                        ELSE mtab
             /\ loc' = [loc EXCEPT ![c] = Did(l, ok, "mount_keys")]
             /\ Try(c, ok, "failed to mount sefs", "write_key")
        /\ UNCHANGED <<cfg, under, store, keystore, plainKeys, scratch, scratchExists, calls>>

\* Lines 217-228: the key record is written to /keys/key.txt.
WriteKey(c) ==
    LET l == loc[c]
        on == Mounted(mtab, KeysPath)
        d == DirCid(Top(mtab, KeysPath))
        old == IF on THEN keystore[d] ELSE plainKeys
    IN  /\ pc[c] = "write_key"
        /\ \E o \in fs_write(old, KeyLine(l.fsmodes)) :
             /\ keystore' = IF on THEN [keystore EXCEPT ![d] = o.file] ELSE keystore
             /\ plainKeys' = IF on THEN plainKeys ELSE o.file
             /\ loc' = [loc EXCEPT ![c] = Did(l, o.ok, "write_key")]
             /\ Try(c, o.ok, "write", "umount_keys")
        /\ UNCHANGED <<cfg, under, store, mtab, scratch, scratchExists, calls>>

\* Lines 229-235: /keys is released and the MountPoint returned.
UmountKeys(c) ==
    LET l == loc[c]
        on == Mounted(mtab, KeysPath)
    IN  /\ pc[c] = "umount_keys"
        /\ \E ok \in Outcomes(on) :
             /\ mtab' = IF ok THEN nix_umount(mtab, KeysPath) ELSE mtab
             /\ loc' = [loc EXCEPT ![c] = Did(l, ok, "umount_keys")]
             /\ Try(c, ok, "umount", "return")
        /\ UNCHANGED <<cfg, under, store, keystore, plainKeys, scratch, scratchExists, calls>>

\* Lines 231-235.
Return(c) ==
    /\ pc[c] = "return"
    /\ pc' = [pc EXCEPT ![c] = "idle"]
    /\ ret' = [ret EXCEPT ![c] = OkHandle("mount", loc[c].mount_path)]
    /\ UNCHANGED <<cfg, loc, under, store, keystore, plainKeys, mtab, scratch, scratchExists,
                   calls>>

----------------------------------------------------------------------------
(* unmount (lines 238-242).                                                *)

unmount(c, mount_point) ==
    LET p == mount_point.mount_path
    IN  /\ pc[c] = "idle"
        /\ \E ok \in Outcomes(Mounted(mtab, p)) :
             /\ mtab' = IF ok THEN nix_umount(mtab, p) ELSE mtab
             /\ ret' = [ret EXCEPT ![c] = IF ok THEN Ok("unmount") ELSE Err("unmount", "umount")]
        /\ UNCHANGED <<cfg, pc, loc, under, store, keystore, plainKeys, scratch, scratchExists,
                       calls>>

\* unmount, called with a MountPoint of any path mount is called with.
Unmount(c) == \E p \in {in.mount_path : in \in cfg.inputs[c]} : unmount(c, MountPoint(p))

----------------------------------------------------------------------------

Step(c) ==
    \/ MountCall(c)
    \/ CreateMountPath(c)
    \/ ResolveCid(c)
    \/ PrepareWorkDir(c)
    \/ MountHostfs(c)
    \/ ClearMountPath(c)
    \/ BuildRw(c)
    \/ CreateEnvironment(c)
    \/ BuildEnv(c)
    \/ ClearAfterEnv(c)
    \/ BuildLayer(c)
    \/ ClearAfterLayer(c)
    \/ UmountHostfs(c)
    \/ MountKeys(c)
    \/ WriteKey(c)
    \/ UmountKeys(c)
    \/ Return(c)
    \/ Unmount(c)

Next == \E c \in Ctxs : Step(c)

Spec == Init /\ [][Next]_vars

SpecKeys == InitKeys /\ [][Next]_vars

SpecConc == InitConc /\ [][Next]_vars

SpecAgain == InitAgain /\ [][Next]_vars

----------------------------------------------------------------------------
(* Reading a key record back, as the runtime that consumes key.txt does.   *)

\* The pieces of t between the separators.
Split(t, sep) ==
    LET at == {n \in 1..Len(t) : t[n] = sep}
        nth(k) == CHOOSE n \in at : Cardinality({m \in at : m < n}) = k - 1
        first(k) == IF k = 1 THEN 1 ELSE nth(k - 1) + 1
        last(k) == IF k = Cardinality(at) + 1 THEN Len(t) ELSE nth(k) - 1
    IN  [k \in 1..(Cardinality(at) + 1) |-> SubSeq(t, first(k), last(k))]

IsUpperHex(ch) == \E n \in 1..16 : HexDigits[n] = ch
HexValue(ch) == (CHOOSE n \in 1..16 : HexDigits[n] = ch) - 1

\* The bytes an upper-case hexadecimal text stands for.
HexDecode(t) == [n \in 1..(Len(t) \div 2) |-> 16 * HexValue(t[2 * n - 1]) + HexValue(t[2 * n])]

\* Whether a token reads as <mode>-<HEX>.
WellFormedToken(t) ==
    /\ Len(t) >= 4
    /\ SubSeq(t, 1, 3) \in {<<"e", "n", "c">>, <<"i", "n", "t">>}
    /\ t[4] = "-"
    /\ (Len(t) - 4) % 2 = 0
    /\ \A n \in 5..Len(t) : IsUpperHex(t[n])

\* The descriptor a well-formed token stands for.
ParseToken(t) ==
    [enc |-> SubSeq(t, 1, 3) = <<"e", "n", "c">>, key |-> HexDecode(SubSeq(t, 5, Len(t)))]

\* The HEX field of a token: what follows its first dash.
HexField(t) == SubSeq(t, 5, Len(t))

----------------------------------------------------------------------------
(* What a finished call of mount looks like.                               *)

Returned(c) == pc[c] = "idle" /\ ret[c].op = "mount"
Succeeded(c) == Returned(c) /\ ret[c].ok /\ ret[c].handle
N(c) == Len(loc[c].layer_path)

\* key.txt of the container the call was for.
PublishedTokens(c) == Split(keystore[loc[c].cid].text, ":")

\* The image the call's k-th build wrote, as it is in the storage root now.
ImageOfBuild(c, k) ==
    CHOOSE f \in store[loc[c].cid] : f.name = loc[c].builds[k].name

----------------------------------------------------------------------------
\* C1: a successful mount with N caller layers has collected exactly N+2 key
\* records, from the writable layer, the staged environment and the N caller
\* layers in this order, and key.txt holds exactly N+2 entries between
\* colons, entry k being the record (mode and key) of the k-th image built.
C1_RecordPerLayer ==
    \A c \in Ctxs :
        Succeeded(c) =>
            /\ Len(loc[c].fsmodes) = N(c) + 2
            /\ Len(loc[c].builds) = N(c) + 2
            /\ loc[c].builds[1].kind = "rw"
            /\ loc[c].builds[2].src = "occlum_env"
            /\ \A k \in 1..N(c) : loc[c].builds[k + 2].src = loc[c].layer_path[k]
            /\ keystore[loc[c].cid].exists
            /\ Len(PublishedTokens(c)) = N(c) + 2
            /\ \A k \in 1..(N(c) + 2) :
                 /\ \E f \in store[loc[c].cid] : f.name = loc[c].builds[k].name
                 /\ PublishedTokens(c)[k] =
                      (IF ImageOfBuild(c, k).enc THEN <<"e", "n", "c", "-">>
                       ELSE <<"i", "n", "t", "-">>)
                          \o hex_encode_upper(ImageOfBuild(c, k).key)

C1_Witness ==
    \E c \in Ctxs :
        /\ Succeeded(c)
        /\ N(c) = 2
        /\ Len(PublishedTokens(c)) = 4
        /\ loc[c].fsmodes[1].enc /\ ~loc[c].fsmodes[4].enc
        /\ loc[c].fsmodes[1].key # loc[c].fsmodes[3].key

----------------------------------------------------------------------------
\* C6: round trip of the key record.  After a successful mount, key.txt split
\* on ':' gives one token per builder call, every token reads as
\* <mode>-<HEX> with HEX in upper case, and the tokens parse back, in call
\* order, to the descriptors the builder returned: mode enc exactly for an
\* encrypted image, and the same key bytes.
C6_KeyRecordRoundTrip ==
    \A c \in Ctxs :
        Succeeded(c) =>
            /\ Len(PublishedTokens(c)) = Len(loc[c].builds)
            /\ \A k \in 1..Len(loc[c].builds) :
                 /\ WellFormedToken(PublishedTokens(c)[k])
                 /\ ParseToken(PublishedTokens(c)[k]) = loc[c].builds[k].mode

C6_Witness ==
    \E c \in Ctxs :
        /\ Succeeded(c)
        /\ N(c) = 2
        /\ ParseToken(PublishedTokens(c)[1]) = [enc |-> FALSE, key |-> KeyOf(255)]
        /\ ParseToken(PublishedTokens(c)[3]) = [enc |-> TRUE, key |-> KeyOf(1)]
        /\ ParseToken(PublishedTokens(c)[4]) = [enc |-> TRUE, key |-> KeyOf(17)]

----------------------------------------------------------------------------
PairwiseDistinct(s) == \A j, k \in 1..Len(s) : j # k => s[j] # s[k]

\* C7: in a call of mount every build is handed the value of its own call of
\* the random source, the k-th build the k-th value; so when the source has
\* returned a different value on each call, the HEX fields of the record a
\* successful call published differ pairwise.
C7_KeyPerLayer ==
    \A c \in Ctxs :
        /\ Len(loc[c].builds) = Len(loc[c].rand)
        /\ \A k \in 1..Len(loc[c].builds) : loc[c].builds[k].key = loc[c].rand[k]
        /\ Succeeded(c) /\ PairwiseDistinct(loc[c].rand) =>
             /\ Len(PublishedTokens(c)) = N(c) + 2
             /\ PairwiseDistinct([k \in 1..Len(PublishedTokens(c)) |->
                                    HexField(PublishedTokens(c)[k])])

C7_Witness ==
    \E c \in Ctxs :
        /\ Succeeded(c)
        /\ N(c) = 2
        /\ PairwiseDistinct(loc[c].rand)
        /\ Len(loc[c].rand) = 4

----------------------------------------------------------------------------
\* Whether a mount path names a container: it has a parent, and the parent a
\* file name.
Resolvable(p) == parent(p).some /\ file_name(parent(p).path).some

\* A directory mount created: the directories that were there hold a file.
Created(p) == p # RootPath /\ under[p].exists /\ under[p].files = {}

\* C2, as claimed: a call of mount with a mount_path that has no parent, or
\* whose parent has no file name, fails, and no step of it takes effect: no
\* directory is created, the scratch workspace is not touched, nothing is
\* mounted.
C2_NoSideEffectWithoutIdentity ==
    \A c \in Ctxs :
        loc[c].id > 0 /\ ~Resolvable(loc[c].mount_path) =>
            /\ loc[c].trace = <<>>
            /\ ~Created(loc[c].mount_path)
            /\ Returned(c) => ~ret[c].ok /\ ~ret[c].handle

----------------------------------------------------------------------------
\* <i as four digits>.roimage for i < 10, written out.
FourDigitRoImage(i) ==
    <<"0", "0", "0", DecDigits[i + 1], ".", "r", "o", "i", "m", "a", "g", "e">>

\* The names of the images a call with n caller layers is to leave.
ExpectedImages(n) ==
    {<<"r", "u", "n", ".", "r", "w", "i", "m", "a", "g", "e">>}
        \cup {FourDigitRoImage(k) : k \in 0..n}

\* C3, as claimed: after a successful mount the images run.rwimage and
\* 0000.roimage .. N.roimage are all seen at mount_path.
C3_ImagesAtMountPath ==
    \A c \in Ctxs :
        Succeeded(c) =>
            \A name \in ExpectedImages(N(c)) :
                \E f \in ViewFiles(loc[c].mount_path) : f.name = name

\* C3, amended: after a successful mount with N caller layers the storage
\* root /images/<cid>/eccfs, which was mounted at mount_path during the
\* builds, holds run.rwimage and 0000.roimage .. N.roimage, each written by
\* this call: the writable image first, the staged environment as 0000 and
\* caller layer i (0-based) as index i+1, four digits zero padded.
C3_ImagesInStorageRoot ==
    \A c \in Ctxs :
        Succeeded(c) =>
            /\ {f.name : f \in {g \in store[loc[c].cid] : g.call = loc[c].id}}
                   = ExpectedImages(N(c))
            /\ loc[c].builds[1].name = <<"r", "u", "n", ".", "r", "w", "i", "m", "a", "g", "e">>
            /\ loc[c].builds[2].name = FourDigitRoImage(0)
            /\ loc[c].builds[2].src = "occlum_env"
            /\ \A i \in 0..(N(c) - 1) :
                 /\ loc[c].builds[i + 3].src = loc[c].layer_path[i + 1]
                 /\ loc[c].builds[i + 3].name = FourDigitRoImage(i + 1)
            /\ \A k \in 1..(N(c) + 2) :
                 \E f \in store[loc[c].cid] :
                     /\ f.name = loc[c].builds[k].name
                     /\ f.key = loc[c].builds[k].key
                     /\ f.call = loc[c].id

C3_Witness ==
    \E c \in Ctxs :
        /\ Succeeded(c)
        /\ N(c) = 2
        /\ ~Mounted(mtab, loc[c].mount_path)
        /\ \E f \in store[loc[c].cid] : f.name = FourDigitRoImage(2) /\ f.call = loc[c].id

----------------------------------------------------------------------------
\* C4, as claimed: after a successful mount none of the files that were at
\* mount_path before the call is seen there, and the directory seen at
\* mount_path is empty when the first image is about to be written.
C4_NothingOldAtMountPath ==
    \A c \in Ctxs :
        /\ Succeeded(c) => \A f \in ViewFiles(loc[c].mount_path) : f.call = loc[c].id
        /\ pc[c] = "build_rw" => ViewFiles(loc[c].mount_path) = {}

\* C4, amended: after a successful mount none of the files that were in the
\* storage root /images/<cid>/eccfs, the directory mount mounts at
\* mount_path, is left there, and the directory seen at mount_path is empty
\* when the first image is about to be written; the files of the directory
\* at mount_path itself, which the mount covers, are not removed.
C4_StorageRootCleared ==
    /\ [](\A c \in Ctxs :
            /\ Succeeded(c) => \A f \in store[loc[c].cid] : f.call = loc[c].id
            /\ pc[c] = "build_rw" => ViewFiles(loc[c].mount_path) = {})
    /\ [][\A p \in MountPaths : under[p].files \subseteq under'[p].files]_vars

C4_Witness ==
    \E c \in Ctxs :
        /\ Succeeded(c)
        /\ \E f \in loc[c].cleared : f.name = FourDigitRoImage(3)
        /\ under[loc[c].mount_path].files # {}
        /\ \A f \in store[loc[c].cid] : f.call = loc[c].id

----------------------------------------------------------------------------
\* C5: unmount of a handle whose mount_path is not mounted fails and changes
\* nothing; a failed unmount changes nothing; a successful one releases the
\* top mount of the handle's mount_path and nothing else.  In every case
\* the mounts of all other paths (/keys among them), the images, the scratch
\* workspace and every key.txt are as before.
C5_UnmountFrame ==
    [][\A c \in Ctxs, p \in MountPaths :
          unmount(c, MountPoint(p)) =>
              /\ UNCHANGED <<under, store, keystore, plainKeys, scratch, scratchExists>>
              /\ \A q \in MountTargets \ {p} : mtab'[q] = mtab[q]
              /\ ret'[c].op = "unmount"
              /\ ~Mounted(mtab, p) => ~ret'[c].ok /\ mtab' = mtab
              /\ ~ret'[c].ok => mtab' = mtab
              /\ ret'[c].ok =>
                   /\ Mounted(mtab, p)
                   /\ Len(mtab'[p]) = Len(mtab[p]) - 1
                   /\ \A k \in 1..Len(mtab'[p]) : mtab'[p][k] = mtab[p][k]
      ]_vars

\* unmount has failed on c2's mount path, which is not mounted, while c1's
\* mount path and /keys are.
C5_Witness ==
    \E c \in Ctxs :
        /\ ret[c] = Err("unmount", "umount")
        /\ ~Mounted(mtab, ContainerPath("c2"))
        /\ Mounted(mtab, ContainerPath("c1"))
        /\ Mounted(mtab, KeysPath)
        /\ store["c2"] # {}

\* unmount has released c1's mount path while /keys stayed mounted.
C5_Released ==
    \E c \in Ctxs :
        /\ ret[c] = Ok("unmount")
        /\ ~Mounted(mtab, ContainerPath("c1"))
        /\ Mounted(mtab, KeysPath)
        /\ calls = 0

----------------------------------------------------------------------------
\* C8: the builds of a call of mount come in one order: the writable image
\* first, its key recorded before a read-only build is begun; then the
\* staged environment; then the caller's layers in the order of the input,
\* the k-th of them as the (k+2)-th build.
C8_BuildOrder ==
    \A c \in Ctxs :
        LET b == loc[c].builds
        IN  /\ Len(b) <= N(c) + 2
            /\ Len(loc[c].fsmodes) >= Len(b) - 1
            /\ \A k \in 1..Len(b) :
                 /\ k = 1 => b[k].kind = "rw" /\ b[k].src = ""
                 /\ k = 2 => b[k].kind = "ro" /\ b[k].src = "occlum_env"
                 /\ k > 2 => b[k].kind = "ro" /\ b[k].src = loc[c].layer_path[k - 2]
                 /\ k < Len(b) => loc[c].fsmodes[k] = b[k].mode

C8_Witness ==
    \E c \in Ctxs :
        /\ Succeeded(c)
        /\ loc[c].layer_path = <<"layer_b", "layer_a">>
        /\ Len(loc[c].builds) = 4
        /\ loc[c].builds[3].src = "layer_b"
        /\ loc[c].builds[4].src = "layer_a"

----------------------------------------------------------------------------
RECURSIVE Repeat(_, _)
Repeat(s, n) == IF n = 0 THEN <<>> ELSE s \o Repeat(s, n - 1)

\* The steps of a complete call with n caller layers, after mount_path exists.
CompleteTrace(n) ==
    <<"prepare_work_dir", "mount_hostfs", "clear_mount_path", "build",
      "create_environment", "build", "clear_work_dir">>
        \o Repeat(<<"build", "clear_work_dir">>, n)
        \o <<"umount_hostfs", "mount_keys", "write_key", "umount_keys">>

WithoutCreate(t) == IF Len(t) > 0 /\ t[1] = "create_mount_path" THEN Tail(t) ELSE t

\* C9: mount returns a handle only when every step took effect: all N+2
\* images were built, the hostfs mount was released, key.txt was written
\* with all N+2 records and /keys was released; a call that did not get
\* that far returns an error and no handle.
C9_HandleOnlyWhenComplete ==
    \A c \in Ctxs :
        /\ Returned(c) => (ret[c].ok <=> ret[c].handle)
        /\ Returned(c) /\ ret[c].handle =>
             /\ WithoutCreate(loc[c].trace) = CompleteTrace(N(c))
             /\ Len(loc[c].fsmodes) = N(c) + 2
             /\ ret[c].mount_point.mount_path = loc[c].mount_path
             /\ keystore[loc[c].cid].exists
             /\ Len(Split(keystore[loc[c].cid].text, ":")) = N(c) + 2
        /\ Returned(c) /\ WithoutCreate(loc[c].trace) # CompleteTrace(N(c)) =>
             ~ret[c].ok /\ ~ret[c].handle

C9_Witness ==
    \E c \in Ctxs :
        /\ Succeeded(c)
        /\ N(c) = 2
        /\ Len(loc[c].trace) = 16

----------------------------------------------------------------------------
\* C10, as claimed: the scratch workspace of a call is its own, so the
\* environment a call has staged is there when the call builds it, whatever
\* a call for another container does in the meantime.
C10_ScratchIsolation ==
    \A c \in Ctxs : pc[c] = "build_env" => OcclumEnv(c) \in scratch

----------------------------------------------------------------------------
(* The mounts a call of mount makes.                                       *)

Min(S) == CHOOSE n \in S : \A m \in S : n <= m

\* The places of a step in a trace.
At(t, ev) == {k \in 1..Len(t) : t[k] = ev}

\* The mount of line 137 and the mount of line 202, as the call makes them.
HostfsOf(c) == [fs |-> "hostfs", dir |-> EccfsDirHost(loc[c].cid)]
SefsOf(c) == [fs |-> "sefs", dir |-> KeysDirHost(loc[c].cid)]

\* Where a call is while it holds its hostfs mount, and its sefs mount.
HoldsHostfs(c) ==
    pc[c] \in {"clear_mount_path", "build_rw", "create_environment", "build_env",
               "clear_after_env", "build_layer", "clear_after_layer", "umount_hostfs"}
HoldsSefs(c) == pc[c] \in {"write_key", "umount_keys"}

\* C11: the mount-table steps of one call of mount are in one order.  From
\* the hostfs mount until its release the call's hostfs mount is the top one
\* at mount_path and /keys is as the call found it; mount_path is cleared
\* and every image written in that stretch, so every image of the call is in
\* the storage root and none in the directory under the mount; the hostfs
\* mount is released after the last build and before /keys is mounted, and
\* while the call holds /keys, mount_path is as the call found it: the call
\* never holds both of its mounts.
C11_MountOrder ==
    \A c \in Ctxs :
        LET l == loc[c]
            t == l.trace
            p == l.mount_path
        IN  /\ HoldsHostfs(c) =>
                 /\ mtab[p] = Append(l.entry[p], HostfsOf(c))
                 /\ mtab[KeysPath] = l.entry[KeysPath]
            /\ HoldsSefs(c) =>
                 /\ mtab[KeysPath] = Append(l.entry[KeysPath], SefsOf(c))
                 /\ mtab[p] = l.entry[p]
            /\ pc[c] \in {"mount_keys", "return"} =>
                 mtab[p] = l.entry[p] /\ mtab[KeysPath] = l.entry[KeysPath]
            /\ \A k \in At(t, "clear_mount_path") \cup At(t, "build") :
                 /\ \E m \in At(t, "mount_hostfs") : m < k
                 /\ \A u \in At(t, "umount_hostfs") \cup At(t, "mount_keys") : k < u
            /\ \A k \in At(t, "build") : \E m \in At(t, "clear_mount_path") : m < k
            /\ \A k \in At(t, "mount_keys") :
                 /\ \E u \in At(t, "umount_hostfs") : u < k
                 /\ Cardinality({b \in At(t, "build") : b < k}) = N(c) + 2
            /\ Cardinality(At(t, "mount_hostfs")) <= 1
            /\ Cardinality(At(t, "umount_hostfs")) <= 1
            /\ \A q \in MountPaths : \A f \in under[q].files : f.call = 0

\* A call with two caller layers holds /keys, its hostfs mount released, in
\* a system where an earlier call left mounts behind.
C11_Witness ==
    \E c \in Ctxs :
        /\ pc[c] = "write_key"
        /\ N(c) = 2
        /\ Len(loc[c].builds) = 4
        /\ loc[c].entry[KeysPath] # <<>>
        /\ mtab[KeysPath] = Append(loc[c].entry[KeysPath], SefsOf(c))
        /\ mtab[loc[c].mount_path] = loc[c].entry[loc[c].mount_path]

----------------------------------------------------------------------------
(* Failures.                                                               *)

\* The error each step of mount returns when it fails.
ErrOf(step) ==
    CASE step = "prepare_work_dir" -> "eccfs_work_dir"
      [] step = "mount_hostfs" -> "failed to mount hostfs"
      [] step = "clear_mount_path" -> "clear_path"
      [] step = "build" -> "builder"
      [] step = "create_environment" -> "create_environment"
      [] step = "clear_work_dir" -> "clear_path"
      [] step = "umount_hostfs" -> "umount"
      [] step = "mount_keys" -> "failed to mount sefs"
      [] step = "write_key" -> "write"
      [] step = "umount_keys" -> "umount"

\* The errors of lines 119-127, before any of the steps above.
EarlyErrors == {"create_dir_all", "parent do not exist", "Unknown error: file name parse fail"}

IsPrefix(s, t) == Len(s) <= Len(t) /\ s = SubSeq(t, 1, Len(s))

Failed(c) == Returned(c) /\ ~ret[c].ok

\* The images a call has written.
ImagesOf(c) == {f \in UNION {store[d] : d \in Cids} : f.call = loc[c].id}

\* C12: mount fails fast.  The steps of a call that took effect are always
\* an initial part of the full sequence, and a call that returned an error
\* returned the error of the step right after them: no step ran after the
\* failed one.  So after a failed hostfs mount nothing was cleared and no
\* image built; after a failed build or a failed staging the call built no
\* further image, did not release its hostfs mount, did not mount /keys and
\* left every key.txt as it was; after a failed /keys mount every key.txt is
\* as it was.
C12_FailFast ==
    \A c \in Ctxs :
        LET l == loc[c]
            t == WithoutCreate(l.trace)
            full == CompleteTrace(N(c))
            p == l.mount_path
        IN  /\ l.id > 0 => IsPrefix(t, full)
            /\ Failed(c) =>
                 /\ Len(t) < Len(full)
                 /\ ret[c].err \in EarlyErrors => t = <<>>
                 /\ ret[c].err \notin EarlyErrors => ret[c].err = ErrOf(full[Len(t) + 1])
            /\ Failed(c) /\ At(t, "mount_hostfs") = {} =>
                 /\ l.cleared = {} /\ l.builds = <<>> /\ ImagesOf(c) = {}
                 /\ mtab = l.entry /\ keystore = l.entryKeys
            /\ Failed(c) /\ ret[c].err \in {"builder", "create_environment"} =>
                 /\ Len(l.builds) = Cardinality(At(t, "build"))
                                       + (IF ret[c].err = "builder" THEN 1 ELSE 0)
                 /\ {f.name : f \in ImagesOf(c)}
                        = {l.builds[k].name : k \in 1..Cardinality(At(t, "build"))}
                 /\ mtab[p] = Append(l.entry[p], HostfsOf(c))
                 /\ mtab[KeysPath] = l.entry[KeysPath]
                 /\ keystore = l.entryKeys
            /\ Failed(c) /\ ret[c].err = "failed to mount sefs" =>
                 /\ keystore = l.entryKeys
                 /\ mtab = l.entry
            /\ plainKeys = NoKeyFile

\* The build of the first of two caller layers has failed, in a system that
\* holds a key.txt of an earlier run.
C12_Witness ==
    \E c \in Ctxs :
        /\ Failed(c)
        /\ ret[c].err = "builder"
        /\ N(c) = 2
        /\ Len(loc[c].builds) = 3
        /\ Cardinality(ImagesOf(c)) = 2
        /\ keystore[loc[c].cid] = LeftoverKeyFile
        /\ Mounted(mtab, loc[c].mount_path)

\* Whether the k-th build of a call is seen, as built, in the directory S.
BuiltIn(S, c, k) ==
    \E f \in S : /\ f.name = loc[c].builds[k].name
                 /\ f.key = loc[c].builds[k].key
                 /\ f.call = loc[c].id

\* C13: mount rolls nothing back.  A call that failed after its hostfs
\* mount and before that mount's release returns with its hostfs mount still
\* the top one at mount_path, and with every image it had built seen there;
\* a call that failed in the key.txt write or in the release of /keys
\* returns with its sefs mount still the top one at /keys, and with all of
\* its N+2 images in the storage root.
C13_NoRollback ==
    \A c \in Ctxs :
        LET l == loc[c]
            t == l.trace
            p == l.mount_path
            built == Cardinality(At(t, "build"))
        IN  /\ Failed(c) /\ At(t, "mount_hostfs") # {} /\ At(t, "umount_hostfs") = {} =>
                 /\ Mounted(mtab, p)
                 /\ mtab[p] = Append(l.entry[p], HostfsOf(c))
                 /\ \A k \in 1..built : BuiltIn(ViewFiles(p), c, k)
                 /\ \A k \in 1..built : BuiltIn(store[l.cid], c, k)
            /\ Failed(c) /\ At(t, "mount_keys") # {} =>
                 /\ ret[c].err \in {"write", "umount"}
                 /\ Mounted(mtab, KeysPath)
                 /\ mtab[KeysPath] = Append(l.entry[KeysPath], SefsOf(c))
                 /\ built = N(c) + 2
                 /\ \A k \in 1..built : BuiltIn(store[l.cid], c, k)

\* A call with two caller layers failed when the scratch workspace was
\* cleared after the first: three images are seen at mount_path, mounted.
C13_Witness ==
    \E c \in Ctxs :
        /\ Failed(c)
        /\ ret[c].err = "clear_path"
        /\ N(c) = 2
        /\ Cardinality(At(loc[c].trace, "build")) = 3
        /\ Mounted(mtab, loc[c].mount_path)
        /\ \A k \in 1..3 : BuiltIn(ViewFiles(loc[c].mount_path), c, k)

\* The release of /keys failed: the call returned with /keys mounted.
C13_WitnessKeys ==
    \E c \in Ctxs :
        /\ Failed(c)
        /\ At(loc[c].trace, "write_key") # {}
        /\ Mounted(mtab, KeysPath)
        /\ Top(mtab, KeysPath) = SefsOf(c)

----------------------------------------------------------------------------
(* The key-custody mount.                                                  *)

\* What holds of /keys during every call: it is mounted at most once, and
\* only after all N+2 images are built; and the call is about to write
\* key.txt only with its own sefs mount on top of /keys.
KeysWindow(c) ==
    LET l == loc[c]
        t == l.trace
    IN  /\ Cardinality(At(t, "mount_keys")) <= 1
        /\ \A k \in At(t, "mount_keys") :
             Cardinality({b \in At(t, "build") : b < k}) = N(c) + 2
        /\ pc[c] \in {"mount_keys", "write_key", "umount_keys", "return"} =>
             Len(l.builds) = N(c) + 2 /\ Len(l.fsmodes) = N(c) + 2
        /\ pc[c] = "write_key" =>
             Mounted(mtab, KeysPath) /\ Top(mtab, KeysPath) = SefsOf(c)

\* C14, as claimed: /keys is mounted at most once in a call, only after all
\* layers are built, key.txt is written only under the call's own /keys
\* mount, and at every successful return /keys is not mounted.
C14_KeysNotMountedAtReturn ==
    \A c \in Ctxs :
        /\ KeysWindow(c)
        /\ Succeeded(c) => ~Mounted(mtab, KeysPath)

\* C14, amended: /keys is mounted at most once in a call, only after all
\* layers are built; a key.txt changes only in the write of a call that has
\* its own sefs mount, backed by the key directory of its container, on top
\* of /keys, and it is the key.txt of that container that changes; and at
\* every successful return the call's mount of /keys is released: /keys
\* holds the mounts it held when the call began, so it is not mounted when
\* no earlier failed call had left it mounted.
C14_KeysWindowClosed ==
    /\ [](\A c \in Ctxs :
            /\ KeysWindow(c)
            /\ Succeeded(c) => mtab[KeysPath] = loc[c].entry[KeysPath]
            /\ Succeeded(c) /\ loc[c].entry[KeysPath] = <<>> => ~Mounted(mtab, KeysPath))
    /\ [][keystore' # keystore \/ plainKeys' # plainKeys =>
            \E c \in Ctxs :
                /\ pc[c] = "write_key"
                /\ Mounted(mtab, KeysPath)
                /\ Top(mtab, KeysPath) = SefsOf(c)
                /\ Top(mtab, KeysPath).dir = <<"images", loc[c].cid, "keys", "sefs", "lower">>
                /\ plainKeys' = plainKeys
                /\ \A d \in Cids \ {loc[c].cid} : keystore'[d] = keystore[d]
      ]_vars

\* A call for c2 has returned its handle, its key.txt written, where no
\* mount was left behind: /keys is not mounted.
C14_Witness ==
    \E c \in Ctxs :
        /\ Succeeded(c)
        /\ loc[c].cid = "c2"
        /\ loc[c].entry[KeysPath] = <<>>
        /\ ~Mounted(mtab, KeysPath)
        /\ keystore["c2"] = KeyFile(KeyLine(loc[c].fsmodes))
        /\ keystore["c1"] # keystore["c2"]

----------------------------------------------------------------------------
(* The scratch workspace.                                                  *)

\* Every read-only build that took effect is followed by the clearing of the
\* scratch workspace, when the call went on at all.
ClearedAfterEachBuild(t) ==
    \A k \in At(t, "build") :
        k > Min(At(t, "build")) /\ k < Len(t) => t[k + 1] = "clear_work_dir"

\* C15, as claimed: the scratch workspace handed to the builder has no
\* entries at the start of every read-only build, that of the staged
\* environment and that of each caller layer, and it is cleared after each.
C15_ScratchEmptyAtBuild ==
    \A c \in Ctxs :
        /\ pc[c] \in {"build_env", "build_layer"} => scratch = {}
        /\ ClearedAfterEachBuild(loc[c].trace)

\* C15, amended: at the start of the build of the staged environment the
\* scratch workspace holds the staged environment, occlum_env, and nothing
\* else; at the start of the build of each caller layer it has no entries;
\* it is cleared after each read-only build, and is empty from the last
\* clearing to the return of the call.
C15_ScratchHoldsOnlyEnv ==
    \A c \in Ctxs :
        /\ pc[c] = "build_env" => scratch = {OcclumEnv(c)}
        /\ pc[c] = "build_layer" => scratch = {}
        /\ ClearedAfterEachBuild(loc[c].trace)
        /\ pc[c] \in {"umount_hostfs", "mount_keys", "write_key", "umount_keys", "return"} =>
             scratch = {}
        /\ Succeeded(c) => scratch = {}

\* The second caller layer is about to be built: the scratch workspace was
\* cleared after the environment and after the first caller layer.
C15_Witness ==
    \E c \in Ctxs :
        /\ pc[c] = "build_layer"
        /\ loc[c].i = 1
        /\ Cardinality(At(loc[c].trace, "clear_work_dir")) = 2
        /\ Cardinality(At(loc[c].trace, "build")) = 3
        /\ scratch = {}

----------------------------------------------------------------------------
(* Calls that follow calls.                                                *)

\* C16: whatever calls of mount came before, on the same mount_path or on
\* another, failed or not, after a successful call with N caller layers the
\* storage root of its container holds exactly run.rwimage and
\* 0000.roimage .. N.roimage, N+2 files, each written by this call: no image
\* of an earlier call is left.
C16_NoStaleImages ==
    \A c \in Ctxs :
        Succeeded(c) =>
            /\ {f.name : f \in store[loc[c].cid]} = ExpectedImages(N(c))
            /\ Cardinality(store[loc[c].cid]) = N(c) + 2
            /\ \A f \in store[loc[c].cid] : f.call = loc[c].id
            /\ \A k \in 1..(N(c) + 2) : BuiltIn(store[loc[c].cid], c, k)

\* A second call, without caller layers, has succeeded on a mount_path for
\* which the first call had built the image of a second caller layer.
C16_Witness ==
    \E c \in Ctxs :
        /\ Succeeded(c)
        /\ loc[c].id = 2
        /\ N(c) = 0
        /\ \E f \in loc[c].cleared : f.call = 1 /\ f.name = FourDigitRoImage(2)
        /\ Cardinality(store[loc[c].cid]) = 2

----------------------------------------------------------------------------
\* C17, as claimed: at a successful return the mount table is as the call
\* found it, and so the handle's mount_path is not mounted.
C17_NotMountedAtReturn ==
    \A c \in Ctxs :
        Succeeded(c) =>
            /\ mtab = loc[c].entry
            /\ ~Mounted(mtab, ret[c].mount_point.mount_path)

\* C17, amended: at a successful return the mount table is as the call found
\* it, the call's hostfs and sefs mounts released.  The handle's mount_path
\* is mounted then exactly when it was at the call's entry, by a mount an
\* earlier failed call left behind.  An unmount of the handle right after
\* the return fails, and changes nothing, when mount_path was not mounted at
\* entry; it can succeed only by releasing such an earlier mount.
C17_MountTableRestored ==
    /\ [](\A c \in Ctxs :
            Succeeded(c) =>
                /\ mtab = loc[c].entry
                /\ ret[c].mount_point = MountPoint(loc[c].mount_path)
                /\ Mounted(mtab, loc[c].mount_path) <=> loc[c].entry[loc[c].mount_path] # <<>>)
    /\ [][\A c \in Ctxs :
            Succeeded(c) /\ unmount(c, ret[c].mount_point) =>
                /\ loc[c].entry[loc[c].mount_path] = <<>> =>
                     ret'[c] = Err("unmount", "umount") /\ mtab' = mtab
                /\ ret'[c].ok =>
                     /\ loc[c].entry[loc[c].mount_path] # <<>>
                     /\ mtab'[loc[c].mount_path] = Front(loc[c].entry[loc[c].mount_path])
      ]_vars

\* The unmount of a handle, of a call with two caller layers that found
\* nothing mounted, has failed.
C17_Witness ==
    \E c \in Ctxs :
        /\ ret[c] = Err("unmount", "umount")
        /\ pc[c] = "idle"
        /\ N(c) = 2
        /\ WithoutCreate(loc[c].trace) = CompleteTrace(2)
        /\ loc[c].entry = [p \in MountTargets |-> <<>>]
        /\ mtab = loc[c].entry

----------------------------------------------------------------------------
\* The k-th image of a storage root: the writable image, then the read-only
\* images by their index.
ImageNameAt(k) == IF k = 1 THEN ECCFS_RW_IMAGE_NAME ELSE RoImageName(k - 2)

\* Whether key.txt of container d matches the images of d's storage root:
\* as many entries as images, the images named run.rwimage, 0000.roimage, ..
\* without a gap, and entry k the mode and the key of the k-th image.
InStep(d) ==
    LET n == Cardinality(store[d])
        tokens == Split(keystore[d].text, ":")
    IN  IF n = 0 THEN ~keystore[d].exists
        ELSE /\ keystore[d].exists
             /\ Len(tokens) = n
             /\ \A k \in 1..n :
                  \E f \in store[d] :
                      /\ f.name = ImageNameAt(k)
                      /\ WellFormedToken(tokens[k])
                      /\ ParseToken(tokens[k]) = [enc |-> f.enc, key |-> f.key]

\* No call of mount is under way, and none has failed.
AllSucceeded == \A c \in Ctxs : pc[c] \in {"idle", "off"} /\ loc[c].clean /\ Completed(loc[c])

\* C18: when calls of mount are made one after the other and all succeed,
\* then for every container key.txt matches the images of its storage root
\* position by position; and a step of mount changes the images and the
\* key.txt of the container the call is for, of no other.
C18_KeysMatchImages ==
    /\ [](AllSucceeded => \A d \in Cids : InStep(d))
    /\ [][\A d \in Cids :
            store'[d] # store[d] \/ keystore'[d] # keystore[d] =>
                \E c \in Ctxs : pc[c] \notin {"idle", "off"} /\ loc[c].cid = d
      ]_vars

\* Two calls have succeeded, the first for c1 with a caller layer, the
\* second for c2 without: each container has its images and its key.txt.
C18_Witness ==
    /\ AllSucceeded
    /\ \E c \in Ctxs : loc[c].id = 2 /\ loc[c].cid = "c2" /\ N(c) = 0
    /\ Cardinality(store["c1"]) = 3
    /\ Cardinality(store["c2"]) = 2
    /\ Len(Split(keystore["c1"].text, ":")) = 3
    /\ Len(Split(keystore["c2"].text, ":")) = 2
    /\ keystore["c1"].text # keystore["c2"].text

----------------------------------------------------------------------------
\* What holds of the key.txt files in every call: a call that failed before
\* its write left all of them as it found them; one differs from what the
\* call found only for the call's own container and after the call's mount of
\* /keys, with all N+2 records collected; a call writes at most once; the
\* directory /keys itself is never written.
WrittenOnlyByTheWrite(c) ==
    LET l == loc[c]
        t == l.trace
    IN  /\ Failed(c) /\ ret[c].err # "write" /\ At(t, "write_key") = {} =>
             keystore = l.entryKeys
        /\ \A d \in Cids :
             l.id > 0 /\ keystore[d] # l.entryKeys[d] =>
                 /\ d = l.cid
                 /\ At(t, "mount_keys") # {}
                 /\ Len(l.fsmodes) = N(c) + 2
        /\ Cardinality(At(t, "write_key")) <= 1
        /\ plainKeys = NoKeyFile

\* C19, as claimed: a call that fails before the key.txt write leaves every
\* key.txt unchanged; a key.txt is modified only by the one write after the
\* mount of /keys, and then it holds the complete record of N+2 entries.
C19_WriteIsWholeRecord ==
    \A c \in Ctxs :
        /\ WrittenOnlyByTheWrite(c)
        /\ \A d \in Cids :
             loc[c].id > 0 /\ keystore[d] # loc[c].entryKeys[d] =>
                 /\ keystore[d] = KeyFile(KeyLine(loc[c].fsmodes))
                 /\ Len(Split(keystore[d].text, ":")) = N(c) + 2

\* C19, amended: as claimed, but for the write itself: a write that succeeds
\* replaces the whole content by the complete record of N+2 entries; a
\* write that fails leaves key.txt as it was or cut short, holding an
\* initial part of the record and not all of it, and the call returns the
\* error of the write.
C19_WholeRecordWhenWritten ==
    \A c \in Ctxs :
        LET l == loc[c]
            line == KeyLine(l.fsmodes)
        IN  /\ WrittenOnlyByTheWrite(c)
            /\ At(l.trace, "write_key") # {} =>
                 /\ keystore[l.cid] = KeyFile(line)
                 /\ Len(Split(keystore[l.cid].text, ":")) = N(c) + 2
            /\ \A d \in Cids :
                 l.id > 0 /\ keystore[d] # l.entryKeys[d] /\ At(l.trace, "write_key") = {} =>
                     /\ pc[c] = "idle" /\ l.trace[Len(l.trace)] = "mount_keys"
                     /\ Returned(c) => ~ret[c].ok /\ ret[c].err = "write"
                     /\ keystore[d].exists
                     /\ IsPrefix(keystore[d].text, line)
                     /\ keystore[d].text # line

\* A call with two caller layers has failed in the mount of /keys, all of
\* its images built: key.txt is the one of the earlier run.
C19_Witness ==
    \E c \in Ctxs :
        /\ Failed(c)
        /\ ret[c].err = "failed to mount sefs"
        /\ N(c) = 2
        /\ Cardinality(ImagesOf(c)) = 4
        /\ keystore[loc[c].cid] = LeftoverKeyFile
        /\ keystore = loc[c].entryKeys

\* A call has replaced the key.txt of an earlier run by its whole record.
C19_WitnessWritten ==
    \E c \in Ctxs :
        /\ Succeeded(c)
        /\ N(c) = 2
        /\ loc[c].entryKeys[loc[c].cid] = LeftoverKeyFile
        /\ keystore[loc[c].cid] = KeyFile(KeyLine(loc[c].fsmodes))

====
